---- MODULE Spec2Model ----
(***************************************************************************)
(* State-machine model of the user-authentication and employee-record      *)
(* HTTP service: the signup/login controllers, the /test route of the      *)
(* first server entry point, and the employee CRUD controllers, over a     *)
(* document store with a unique index on User.email and Employee.email.    *)
(*                                                                         *)
(* Every handler is an async function: it runs atomically between two      *)
(* awaits.  A handler that awaits a find and later an insert is two        *)
(* actions, with the suspended handler kept in `pending` in between, so    *)
(* that other requests interleave exactly where the event loop lets them.  *)
(***************************************************************************)
EXTENDS Integers, FiniteSets, Sequences, Bags, TLC

VARIABLES
    users,      \* the users collection: a set of User documents
    employees,  \* the employees collection: a set of Employee documents
    nextId,     \* how many ObjectIds the process has generated
    pending,    \* bag of handlers suspended between their find and their save
    now,        \* the server clock read by new Date()
    signedUp,   \* history: for each User that signup inserted, the password it was given
    last        \* the step just taken: handler, request and response sent

vars == <<users, employees, nextId, pending, now, signedUp, last>>

-----------------------------------------------------------------------------
(* Bounds of the model *)

MaxIds == 3        \* ObjectIds generated in one run
MaxPending == 2    \* handlers suspended at the same time
MaxClock == 1      \* readings of the server clock
NSalts == 2        \* distinct salts bcrypt's generator may draw

(* Program constants *)

SaltRounds == 10

-----------------------------------------------------------------------------
(* Inputs *)

TestEmail == "test@email.com"
TestPassword == "123456"
Emails == {"a@x.com", TestEmail}
Passwords == {"secret1", TestPassword}
Usernames == {"a"}
Salts == 1..NSalts

-----------------------------------------------------------------------------
(* Credential hasher (bcryptjs) and token issuer (jsonwebtoken), as the    *)
(* controllers use them.  A stored password is a record: a bcrypt hash     *)
(* carries its cost and salt and is bound to the text it was derived from; *)
(* a string stored as it came carries no salt.                             *)

Plain(text) == [form |-> "plain", cost |-> 0, salt |-> 0, text |-> text]

\* bcrypt.hash(password, 10), with the salt the generator drew
bcryptHash(password, salt) ==
    [form |-> "bcrypt", cost |-> SaltRounds, salt |-> salt, text |-> password]

\* Mutant: any password verifies against a well-formed hash.
bcryptCompareAny(password, stored) == stored.form = "bcrypt"

\* bcrypt.compare(password, hash): re-hash with the salt embedded in the
\* hash; a stored string that is no bcrypt hash never verifies
bcryptCompare(password, stored) ==
    /\ stored.form = "bcrypt"
    /\ [form |-> "bcrypt", cost |-> stored.cost, salt |-> stored.salt, text |-> password] = stored

\* jwt.sign({ id: user._id }, JWT_SECRET, { expiresIn: "1h" })
jwtSign(id) == [id |-> id, expiresIn |-> "1h"]

-----------------------------------------------------------------------------
(* Document store *)

\* Mutant: the collection has no unique index on email.
UniqueIndexOff(coll, email) == FALSE

\* The unique index on email: an insert or update that would give a second
\* document this email is rejected with a duplicate-key error (E11000)
DuplicateKey(coll, email) == \E d \in coll : d.email = email

\* Model.findOne({ email })
findOne(coll, email) == {d \in coll : d.email = email}

\* a lookup that ignores the identifier it was given
findByIdLoose(coll, id) == coll

\* Model.findById(id)
findById(coll, id) == {d \in coll : d._id = id}

DuplicateKeyMessage == "E11000 duplicate key error"

-----------------------------------------------------------------------------
(* Responses *)

\* res.status(s).json(b)
Response(handler, req, status, body) ==
    [handler |-> handler, req |-> req, status |-> status, body |-> body]

\* the handler is suspended at an await: nothing was sent
Suspended(handler, req) ==
    [handler |-> handler, req |-> req, status |-> 0, body |-> <<>>]

\* the request got no response at all (the promise rejected unhandled)
Unanswered(handler, req) ==
    [handler |-> handler, req |-> req, status |-> -1, body |-> <<>>]

Idle == [handler |-> "none", req |-> <<>>, status |-> 0, body |-> <<>>]

Suspend(r) == BagCardinality(pending) < MaxPending /\ pending' = pending (+) SetToBag({r})
Resume(r) == BagIn(r, pending) /\ pending' = pending (-) SetToBag({r})

-----------------------------------------------------------------------------
(* User documents *)

NewUser(id, username, email, password, t) ==
    [_id |-> id, username |-> username, email |-> email, password |-> password,
     created_at |-> t, updated_at |-> t]

Init ==
    /\ users = {}
    /\ employees = {}
    /\ nextId = 0
    /\ pending = EmptyBag
    /\ now = 0
    /\ signedUp = {}
    /\ last = Idle

\* the clock advances
Tick ==
    /\ now < MaxClock
    /\ now' = now + 1
    /\ UNCHANGED <<users, employees, nextId, pending, signedUp, last>>

\* the response just sent leaves the server; `last` observes one step at a
\* time, so the next step is taken once the observation is cleared
Deliver ==
    /\ last # Idle
    /\ last' = Idle
    /\ UNCHANGED <<users, employees, nextId, pending, now, signedUp>>

Ready == last = Idle

-----------------------------------------------------------------------------
(* controllers/userController.js: signup and login behind express-validator *)

\* signup, up to its first await: validationResult, then User.findOne({ email })
signup(valid, username, email, password) ==
    LET req == [handler |-> "signup", valid |-> valid, username |-> username,
                email |-> email, password |-> password]
    IN  /\ UNCHANGED <<users, employees, nextId, now, signedUp>>
        /\ IF ~valid
           THEN /\ last' = Response("signup", req, 400, [status |-> FALSE, errors |-> "validation"])
                /\ UNCHANGED pending
           ELSE IF findOne(users, email) # {}
           THEN /\ last' = Response("signup", req, 400,
                                    [status |-> FALSE, message |-> "Email already exists"])
                /\ UNCHANGED pending
           ELSE /\ Suspend(req)
                /\ last' = Suspended("signup", req)

\* signup, resumed: bcrypt.hash, new User, newUser.save(), 201 or the catch
signupSave(req, salt) ==
    /\ req.handler = "signup"
    /\ Resume(req)
    /\ UNCHANGED <<employees, now>>
    /\ IF DuplicateKey(users, req.email)
       THEN /\ last' = Response("signupSave", req, 500,
                                [status |-> FALSE, message |-> DuplicateKeyMessage])
            /\ UNCHANGED <<users, nextId, signedUp>>
       ELSE /\ nextId < MaxIds
            /\ nextId' = nextId + 1
            /\ users' = users \cup
                 {NewUser(nextId + 1, req.username, req.email,
                          bcryptHash(req.password, salt), now)}
            /\ signedUp' = signedUp \cup {[id |-> nextId + 1, password |-> req.password]}
            /\ last' = Response("signupSave", req, 201,
                                [message |-> "User created successfully.", user_id |-> nextId + 1])

\* Mutant: a failed password check answers with a message of its own.
WrongPasswordBodyTelling == [status |-> FALSE, message |-> "Wrong password"]

\* the body sent when no User has the email
NoSuchUserBody == [status |-> FALSE, message |-> "Invalid username or password"]

\* the body sent when bcrypt.compare is false
WrongPasswordBody == [status |-> FALSE, message |-> "Invalid username or password"]

\* login after validation: User.findOne, bcrypt.compare, jwt.sign; the
\* status and body it sends
loginResult(coll, email, password) ==
    LET found == findOne(coll, email)
        user == CHOOSE u \in found : TRUE
    IN  IF found = {}
        THEN [status |-> 400, body |-> NoSuchUserBody]
        ELSE IF ~bcryptCompare(password, user.password)
        THEN [status |-> 400, body |-> WrongPasswordBody]
        ELSE [status |-> 200,
              body |-> [message |-> "Login successful.", jwt_token |-> jwtSign(user._id)]]

\* login: validationResult, then the lookup and the checks
login(valid, email, password) ==
    LET req == [handler |-> "login", valid |-> valid, email |-> email, password |-> password]
        res == loginResult(users, email, password)
    IN  /\ UNCHANGED <<users, employees, nextId, pending, now, signedUp>>
        /\ IF ~valid
           THEN last' = Response("login", req, 400, [status |-> FALSE, errors |-> "validation"])
           ELSE last' = Response("login", req, res.status, res.body)

-----------------------------------------------------------------------------
(* The second user controller (unnamed/part_002): no validation step *)

\* signup, up to its first await: User.findOne({ email })
signup2(username, email, password) ==
    LET req == [handler |-> "signup2", valid |-> TRUE, username |-> username,
                email |-> email, password |-> password]
    IN  /\ UNCHANGED <<users, employees, nextId, now, signedUp>>
        /\ IF findOne(users, email) # {}
           THEN /\ last' = Response("signup2", req, 400, [message |-> "Email already exists"])
                /\ UNCHANGED pending
           ELSE /\ Suspend(req)
                /\ last' = Suspended("signup2", req)

\* signup, resumed: bcrypt.hash, new User, newUser.save(), 201 or the catch
signup2Save(req, salt) ==
    /\ req.handler = "signup2"
    /\ Resume(req)
    /\ UNCHANGED <<employees, now>>
    /\ IF DuplicateKey(users, req.email)
       THEN /\ last' = Response("signup2Save", req, 500, [message |-> DuplicateKeyMessage])
            /\ UNCHANGED <<users, nextId, signedUp>>
       ELSE /\ nextId < MaxIds
            /\ nextId' = nextId + 1
            /\ users' = users \cup
                 {NewUser(nextId + 1, req.username, req.email,
                          bcryptHash(req.password, salt), now)}
            /\ signedUp' = signedUp \cup {[id |-> nextId + 1, password |-> req.password]}
            /\ last' = Response("signup2Save", req, 201,
                                [message |-> "User created successfully.", user_id |-> nextId + 1])

\* the body sent when no User has the email
NoSuchUserBody2 == [status |-> FALSE, message |-> "Invalid username or password"]

\* the body sent when bcrypt.compare is false
WrongPasswordBody2 == [status |-> FALSE, message |-> "Invalid username or password"]

\* login: User.findOne, bcrypt.compare, jwt.sign; the status and body it sends
login2Result(coll, email, password) ==
    LET found == findOne(coll, email)
        user == CHOOSE u \in found : TRUE
    IN  IF found = {}
        THEN [status |-> 400, body |-> NoSuchUserBody2]
        ELSE IF ~bcryptCompare(password, user.password)
        THEN [status |-> 400, body |-> WrongPasswordBody2]
        ELSE [status |-> 200,
              body |-> [message |-> "Login successful.", jwt_token |-> jwtSign(user._id)]]

\* login of the second controller
login2(email, password) ==
    LET req == [handler |-> "login2", valid |-> TRUE, email |-> email, password |-> password]
        res == login2Result(users, email, password)
    IN  /\ UNCHANGED <<users, employees, nextId, pending, now, signedUp>>
        /\ last' = Response("login2", req, res.status, res.body)

-----------------------------------------------------------------------------
(* The first server entry point (unnamed/part_000): GET /test *)

\* new User({ username: "test", email: "test@email.com", password: "123456" }),
\* await user.save() outside any try: a rejected save leaves the request unanswered
testRoute ==
    LET req == [handler |-> "test"]
    IN  /\ UNCHANGED <<employees, pending, now, signedUp>>
        /\ IF DuplicateKey(users, TestEmail)
           THEN /\ last' = Unanswered("test", req)
                /\ UNCHANGED <<users, nextId>>
           ELSE /\ nextId < MaxIds
                /\ nextId' = nextId + 1
                /\ users' = users \cup
                     {NewUser(nextId + 1, "test", TestEmail, Plain(TestPassword), now)}
                /\ last' = Response("test", req, 200, [message |-> "Test user saved!"])

-----------------------------------------------------------------------------

NextUser ==
    \/ Ready /\ Tick
    \/ Deliver
    \/ Ready /\ \E valid \in BOOLEAN, u \in Usernames, e \in Emails, p \in Passwords :
                  signup(valid, u, e, p)
    \/ Ready /\ \E r \in BagToSet(pending), s \in Salts : signupSave(r, s)
    \/ Ready /\ \E valid \in BOOLEAN, e \in Emails, p \in Passwords : login(valid, e, p)
    \/ Ready /\ \E u \in Usernames, e \in Emails, p \in Passwords : signup2(u, e, p)
    \/ Ready /\ \E r \in BagToSet(pending), s \in Salts : signup2Save(r, s)
    \/ Ready /\ \E e \in Emails, p \in Passwords : login2(e, p)
    \/ Ready /\ testRoute

UserSpec == Init /\ [][NextUser]_vars

-----------------------------------------------------------------------------
(* Employee documents (unnamed/part_003): the schema and what it keeps *)

Required == {"first_name", "last_name", "email", "position", "salary",
             "date_of_joining", "department"}

\* the paths employeeSchema declares
SchemaPaths == Required \cup {"created_at", "updated_at"}

\* JavaScript null
Null == "null"

\* new Employee(data) and the cast of an update: the schema is strict, a key
\* that is no path of the schema is dropped
SchemaCast(data) == [k \in DOMAIN data \cap SchemaPaths |-> data[k]]

\* !value, for a value of the request body: 0 and the empty string are falsy
Falsy(field, value) == IF field = "salary" THEN value = 0 ELSE value = ""

\* a destructured field that fails the controller's required-field test
Missing(body, field) == field \notin DOMAIN body \/ Falsy(field, body[field])

\* the schema's `required: true` at save(): absent, or an empty string; the
\* number 0 passes
FailsRequired(data, field) ==
    field \notin DOMAIN data \/ (field # "salary" /\ data[field] = "")

\* `/uploads/${req.file.filename}`
UploadPath(filename) == <<"/uploads/", filename>>

NoFile == "none"

\* a spread in which the keys of a win
SpreadFirstWins(a, b) == a @@ b

\* { ...a, ...b }: the keys of b win
Spread(a, b) == b @@ a

\* Model.findByIdAndUpdate(id, update): the document it would store
Updated(doc, update) == SchemaCast(update) @@ doc

\* an update that inserts a document when none has the identifier
findByIdAndUpdateUpsert(coll, id, update) ==
    IF \E d \in coll : d._id = id
    THEN {IF d._id = id THEN Updated(d, update) ELSE d : d \in coll}
    ELSE coll \cup {[_id |-> id] @@ SchemaCast(update)}

\* Model.findByIdAndUpdate(id, update, { new: true }): the collection after
\* it; without the upsert option nothing is stored when no document has the
\* identifier
findByIdAndUpdate(coll, id, update) ==
    {IF d._id = id THEN Updated(d, update) ELSE d : d \in coll}

-----------------------------------------------------------------------------
(* Inputs of the employee routes *)

EmpEmails == {"ann@x.com", "bob@x.com"}
Salaries == {0, 50000}
Filenames == {"1700000000000.png"}
Files == {NoFile} \cup Filenames
EmpIds == 1..MaxIds

\* the department a request body names: one per employee
DepartmentOf(email) == IF email = "ann@x.com" THEN "IT" ELSE "HR"

FullBody(email, salary) ==
    [first_name |-> "Ann", last_name |-> "Lee", email |-> email, position |-> "Dev",
     salary |-> salary, date_of_joining |-> "2024-01-15", department |-> DepartmentOf(email)]

Without(body, field) == [k \in DOMAIN body \ {field} |-> body[k]]

\* bodies of POST /employees: complete ones, and ones with a field left out
\* or left empty
FullBodies ==
    {FullBody(e, 50000) : e \in EmpEmails} \cup {FullBody("ann@x.com", 0)}

CreateBodies ==
    FullBodies
    \cup {Without(FullBody("ann@x.com", 50000), f) : f \in Required}
    \cup {[FullBody("ann@x.com", 50000) EXCEPT !.first_name = ""]}

\* POST /employees with and without an uploaded file
CreateRequests ==
    {<<b, NoFile>> : b \in CreateBodies}
    \cup {<<FullBody("ann@x.com", 50000), f>> : f \in Filenames}

\* a timestamp a client puts in a request body
ClientTime == 0

\* bodies of PUT /employees/:eid: partial, one field at a time
UpdateBodies ==
    {<<>>}
    \cup {[first_name |-> ""]}
    \cup {[email |-> e] : e \in EmpEmails}
    \cup {[profileImageUrl |-> ""], [profileImageUrl |-> "/uploads/other.png"]}
    \cup {[updated_at |-> ClientTime], [created_at |-> ClientTime]}

\* PUT /employees/:eid with and without an uploaded file
UpdateRequests ==
    {<<b, NoFile>> : b \in UpdateBodies}
    \cup {<<b, f>> : b \in {<<>>, [profileImageUrl |-> ""]}, f \in Filenames}

-----------------------------------------------------------------------------
(* The employee controller with image upload (routes/employeeRoutes.js,     *)
(* lines 118-255)                                                           *)

\* getAllEmployees: Employee.find()
getAllEmployees ==
    /\ last' = Response("getAllEmployees", [handler |-> "getAllEmployees"], 200, employees)
    /\ UNCHANGED <<users, employees, nextId, pending, now, signedUp>>

\* createEmployee, up to its first await: the required-field test, then
\* Employee.findOne({ email })
createEmployee(body, file) ==
    LET req == [handler |-> "createEmployee", body |-> body, file |-> file]
    IN  /\ UNCHANGED <<users, employees, nextId, now, signedUp>>
        /\ IF \E f \in Required : Missing(body, f)
           THEN /\ last' = Response("createEmployee", req, 400,
                                    [status |-> FALSE, message |-> "All fields are required"])
                /\ UNCHANGED pending
           ELSE IF findOne(employees, body.email) # {}
           THEN /\ last' = Response("createEmployee", req, 400,
                           [status |-> FALSE, message |-> "Employee with this email already exists"])
                /\ UNCHANGED pending
           ELSE /\ Suspend(req)
                /\ last' = Suspended("createEmployee", req)

\* createEmployee, resumed: imagePath, new Employee, employee.save(), 201 or
\* the catch
createEmployeeSave(req) ==
    LET imagePath == IF req.file # NoFile THEN UploadPath(req.file) ELSE Null
        employee == SchemaCast(
            [k \in Required |-> req.body[k]]
            @@ [profileImageUrl |-> imagePath, created_at |-> now, updated_at |-> now])
        shown == IF "profileImageUrl" \in DOMAIN employee
                 THEN [profileImageUrl |-> employee.profileImageUrl] ELSE <<>>
    IN  /\ req.handler = "createEmployee"
        /\ Resume(req)
        /\ UNCHANGED <<users, now, signedUp>>
        /\ IF DuplicateKey(employees, employee.email)
           THEN /\ last' = Response("createEmployeeSave", req, 500,
                                    [status |-> FALSE, message |-> DuplicateKeyMessage])
                /\ UNCHANGED <<employees, nextId>>
           ELSE /\ nextId < MaxIds
                /\ nextId' = nextId + 1
                /\ employees' = employees \cup {[_id |-> nextId + 1] @@ employee}
                /\ last' = Response("createEmployeeSave", req, 201,
                       [message |-> "Employee created successfully.", employee_id |-> nextId + 1]
                       @@ shown)

\* getEmployeeById: Employee.findById(req.params.eid)
getEmployeeById(eid) ==
    LET req == [handler |-> "getEmployeeById", eid |-> eid]
        found == findById(employees, eid)
    IN  /\ UNCHANGED <<users, employees, nextId, pending, now, signedUp>>
        /\ IF found = {}
           THEN last' = Response("getEmployeeById", req, 404,
                                 [status |-> FALSE, message |-> "Employee not found."])
           ELSE last' = Response("getEmployeeById", req, 200, CHOOSE d \in found : TRUE)

\* updateEmployee: the update payload, Employee.findByIdAndUpdate
updateEmployee(eid, body, file) ==
    LET req == [handler |-> "updateEmployee", eid |-> eid, body |-> body, file |-> file]
        withTime == Spread(body, [updated_at |-> now])
        update == IF file # NoFile
                  THEN Spread(withTime, [profileImageUrl |-> UploadPath(file)])
                  ELSE withTime
        found == findById(employees, eid)
        doc == CHOOSE d \in found : TRUE
    IN  /\ UNCHANGED <<users, nextId, pending, now, signedUp>>
        /\ IF found = {}
           THEN /\ last' = Response("updateEmployee", req, 404,
                                    [status |-> FALSE, message |-> "Employee not found."])
                /\ employees' = findByIdAndUpdate(employees, eid, update)
           ELSE IF "email" \in DOMAIN update /\ DuplicateKey(employees \ {doc}, update.email)
           THEN /\ last' = Response("updateEmployee", req, 500,
                                    [status |-> FALSE, message |-> DuplicateKeyMessage])
                /\ UNCHANGED employees
           ELSE /\ employees' = findByIdAndUpdate(employees, eid, update)
                /\ last' = Response("updateEmployee", req, 200,
                                    [message |-> "Employee updated successfully."])

\* deleteEmployee: Employee.findByIdAndDelete(req.params.eid)
deleteEmployee(eid) ==
    LET req == [handler |-> "deleteEmployee", eid |-> eid]
        found == findById(employees, eid)
    IN  /\ UNCHANGED <<users, nextId, pending, now, signedUp>>
        /\ IF found = {}
           THEN /\ last' = Response("deleteEmployee", req, 404,
                                    [status |-> FALSE, message |-> "Employee not found."])
                /\ UNCHANGED employees
           ELSE /\ employees' = employees \ found
                /\ last' = Response("deleteEmployee", req, 200,
                                    [message |-> "Employee deleted successfully."])

\* the characters of the strings stored as department and position
Chars(s) ==
    CASE s = "IT" -> <<"I", "T">>
      [] s = "HR" -> <<"H", "R">>
      [] s = "Dev" -> <<"D", "e", "v">>
      [] OTHER -> <<>>

\* the lower-case form of a character
Lower(c) ==
    CASE c = "I" -> "i" [] c = "T" -> "t" [] c = "H" -> "h" [] c = "R" -> "r"
      [] c = "D" -> "d" [] c = "E" -> "e" [] c = "V" -> "v"
      [] OTHER -> c

\* { $regex: pattern, $options: "i" } on a text: the pattern, read as a
\* regular expression, matches somewhere in the text, letters compared
\* without case.  Of the regular-expression syntax the patterns here use
\* literal characters and ".", which matches any character.
RegexMatch(pattern, text) ==
    \E i \in 0..(Len(text) - Len(pattern)) :
        \A k \in 1..Len(pattern) :
            pattern[k] = "." \/ Lower(pattern[k]) = Lower(text[i + k])

\* a query parameter that is absent, or present and empty: both are falsy
NoParam == <<>>

\* the values of ?department= and ?position=
DepartmentQueries == {NoParam, <<"i", "t">>, <<".">>, <<"x">>}
PositionQueries == {NoParam, <<"E", "V">>}

\* searchEmployees: the filter built from req.query, Employee.find(filter)
searchEmployees(department, position) ==
    LET req == [handler |-> "searchEmployees", department |-> department,
                position |-> position]
        results == {e \in employees :
                      /\ department # NoParam => RegexMatch(department, Chars(e.department))
                      /\ position # NoParam => RegexMatch(position, Chars(e.position))}
    IN  /\ last' = Response("searchEmployees", req, 200, results)
        /\ UNCHANGED <<users, employees, nextId, pending, now, signedUp>>

-----------------------------------------------------------------------------
(* The employee controller without upload (routes/employeeRoutes.js,        *)
(* lines 257-517)                                                           *)

\* getAllEmployees: Employee.find()
getAllEmployees2 ==
    /\ last' = Response("getAllEmployees2", [handler |-> "getAllEmployees2"], 200, employees)
    /\ UNCHANGED <<users, employees, nextId, pending, now, signedUp>>

\* createEmployee: new Employee({ ...req.body, created_at, updated_at }),
\* employee.save(); a validation or duplicate-key error goes to the catch
createEmployee2(body) ==
    LET req == [handler |-> "createEmployee2", body |-> body, file |-> NoFile]
        employee == SchemaCast(Spread(body, [created_at |-> now, updated_at |-> now]))
    IN  /\ UNCHANGED <<users, pending, now, signedUp>>
        /\ IF \E f \in Required : FailsRequired(employee, f)
           THEN /\ last' = Response("createEmployee2", req, 500,
                                    [message |-> "Employee validation failed"])
                /\ UNCHANGED <<employees, nextId>>
           ELSE IF DuplicateKey(employees, employee.email)
           THEN /\ last' = Response("createEmployee2", req, 500,
                                    [message |-> DuplicateKeyMessage])
                /\ UNCHANGED <<employees, nextId>>
           ELSE /\ nextId < MaxIds
                /\ nextId' = nextId + 1
                /\ employees' = employees \cup {[_id |-> nextId + 1] @@ employee}
                /\ last' = Response("createEmployee2", req, 201,
                       [message |-> "Employee created successfully.", employee_id |-> nextId + 1])

\* getEmployeeById: Employee.findById(req.params.eid)
getEmployeeById2(eid) ==
    LET req == [handler |-> "getEmployeeById2", eid |-> eid]
        found == findById(employees, eid)
    IN  /\ UNCHANGED <<users, employees, nextId, pending, now, signedUp>>
        /\ IF found = {}
           THEN last' = Response("getEmployeeById2", req, 404,
                                 [message |-> "Employee not found."])
           ELSE last' = Response("getEmployeeById2", req, 200, CHOOSE d \in found : TRUE)

\* updateEmployee: Employee.findByIdAndUpdate(eid, { ...req.body, updated_at })
updateEmployee2(eid, body) ==
    LET req == [handler |-> "updateEmployee2", eid |-> eid, body |-> body, file |-> NoFile]
        update == Spread(body, [updated_at |-> now])
        found == findById(employees, eid)
        doc == CHOOSE d \in found : TRUE
    IN  /\ UNCHANGED <<users, nextId, pending, now, signedUp>>
        /\ IF found = {}
           THEN /\ last' = Response("updateEmployee2", req, 404,
                                    [message |-> "Employee not found."])
                /\ employees' = findByIdAndUpdate(employees, eid, update)
           ELSE IF "email" \in DOMAIN update /\ DuplicateKey(employees \ {doc}, update.email)
           THEN /\ last' = Response("updateEmployee2", req, 500,
                                    [message |-> DuplicateKeyMessage])
                /\ UNCHANGED employees
           ELSE /\ employees' = findByIdAndUpdate(employees, eid, update)
                /\ last' = Response("updateEmployee2", req, 200,
                                    [message |-> "Employee details updated successfully."])

\* deleteEmployee: Employee.findByIdAndDelete(req.query.eid), answered 204
deleteEmployee2(eid) ==
    LET req == [handler |-> "deleteEmployee2", eid |-> eid]
        found == findById(employees, eid)
    IN  /\ UNCHANGED <<users, nextId, pending, now, signedUp>>
        /\ IF found = {}
           THEN /\ last' = Response("deleteEmployee2", req, 404,
                                    [message |-> "Employee not found."])
                /\ UNCHANGED employees
           ELSE /\ employees' = employees \ found
                /\ last' = Response("deleteEmployee2", req, 204,
                                    [message |-> "Employee deleted successfully."])

-----------------------------------------------------------------------------

NextEmp ==
    \/ Ready /\ Tick
    \/ Deliver
    \/ Ready /\ getAllEmployees
    \/ Ready /\ \E c \in CreateRequests : createEmployee(c[1], c[2])
    \/ Ready /\ \E r \in BagToSet(pending) : createEmployeeSave(r)
    \/ Ready /\ \E id \in EmpIds : getEmployeeById(id)
    \/ Ready /\ \E id \in EmpIds, u \in UpdateRequests : updateEmployee(id, u[1], u[2])
    \/ Ready /\ \E id \in EmpIds : deleteEmployee(id)
    \/ Ready /\ \E dq \in DepartmentQueries, pq \in PositionQueries : searchEmployees(dq, pq)
    \/ Ready /\ getAllEmployees2
    \/ Ready /\ \E b \in CreateBodies : createEmployee2(b)
    \/ Ready /\ \E id \in EmpIds : getEmployeeById2(id)
    \/ Ready /\ \E id \in EmpIds, b \in UpdateBodies : updateEmployee2(id, b)
    \/ Ready /\ \E id \in EmpIds : deleteEmployee2(id)

EmpSpec == Init /\ [][NextEmp]_vars

\* the user controller with validation and the employee controller with
\* upload, mounted together, at one instant of the clock
NextBoth ==
    \/ Deliver
    \/ Ready /\ \E valid \in BOOLEAN, u \in Usernames, e \in Emails, p \in Passwords :
                  signup(valid, u, e, p)
    \/ Ready /\ \E r \in BagToSet(pending), s \in Salts : signupSave(r, s)
    \/ Ready /\ \E valid \in BOOLEAN, e \in Emails, p \in Passwords : login(valid, e, p)
    \/ Ready /\ getAllEmployees
    \/ Ready /\ \E c \in CreateRequests : createEmployee(c[1], c[2])
    \/ Ready /\ \E r \in BagToSet(pending) : createEmployeeSave(r)
    \/ Ready /\ \E id \in EmpIds : getEmployeeById(id)
    \/ Ready /\ \E id \in EmpIds, u \in UpdateRequests : updateEmployee(id, u[1], u[2])
    \/ Ready /\ \E id \in EmpIds : deleteEmployee(id)
    \/ Ready /\ \E dq \in DepartmentQueries, pq \in PositionQueries : searchEmployees(dq, pq)

BothSpec == Init /\ [][NextBoth]_vars

Next == NextUser \/ NextEmp

Spec == Init /\ [][Next]_vars

-----------------------------------------------------------------------------
(* Properties of signup and login *)

SignupHandlers == {"signup", "signup2"}
SignupSaveHandlers == {"signupSave", "signup2Save"}
LoginHandlers == {"login", "login2"}
InvalidCredentials == [status |-> FALSE, message |-> "Invalid username or password"]

\* C1: an email is signed up at most once.  No two Users ever share an email
\* and no User is ever removed; a signup that returns 201 found no User with
\* its email and inserts exactly one, under the identifier it returns; a
\* signup resumed while still no User holds its email returns 201; and every
\* signup with valid fields whose email a User already holds is answered 400
\* "Email already exists" and inserts nothing.
C1_SignupOncePerEmail ==
    [][ /\ \A u, v \in users' : u.email = v.email => u = v
        /\ users \subseteq users'
        /\ (last'.handler \in SignupHandlers /\ last'.req.valid
              /\ findOne(users, last'.req.email) # {})
           => /\ last'.status = 400
              /\ last'.body.message = "Email already exists"
              /\ users' = users
        /\ (last'.handler \in SignupSaveHandlers /\ last'.status = 201)
           => /\ findOne(users, last'.req.email) = {}
              /\ \E u \in users' : /\ u.email = last'.req.email
                                   /\ u._id = last'.body.user_id
                                   /\ users' = users \cup {u}
        /\ (last'.handler \in SignupSaveHandlers /\ findOne(users, last'.req.email) = {})
           => last'.status = 201
      ]_vars

\* C1 witness: a signup for an email that an earlier signup registered has
\* just been refused as a duplicate.
C1_Witness ==
    /\ last.handler \in SignupHandlers
    /\ last.status = 400
    /\ last.req.valid
    /\ last.body.message = "Email already exists"
    /\ \E g \in signedUp : \E u \in users : u._id = g.id /\ u.email = last.req.email

\* C2: when two signups (or two employee creates) with the same email both
\* pass their find-by-email check before either inserts, the insert that the
\* unique index rejects is answered as the DuplicateEmail failure: status 400
\* with the duplicate-email message, as on the pre-check path.
C2_RejectedInsertIsDuplicateEmail ==
    /\ (/\ last.handler \in SignupSaveHandlers
        /\ \E g \in signedUp : \E u \in users : u._id = g.id /\ u.email = last.req.email
        /\ last.status # 201)
       => last.status = 400 /\ last.body.message = "Email already exists"
    /\ (last.handler = "createEmployeeSave" /\ last.status # 201)
       => /\ last.status = 400
          /\ last.body.message = "Employee with this email already exists"

\* C3: the password of every stored User is an output of the credential
\* hasher, whichever route inserted the User.
C3_StoredPasswordsAreHashes ==
    \A u \in users : \E p \in Passwords, s \in Salts : u.password = bcryptHash(p, s)

\* C4: for a User that signup created, a login with that User's email
\* returns 200 with a token carrying the User's identifier when the password
\* is the one given at signup, and 400 "Invalid username or password" with
\* no token for every other password.
C4_LoginIffSignupPassword ==
    \A g \in signedUp : \A u \in users :
        (/\ u._id = g.id
         /\ last.handler \in LoginHandlers
         /\ last.req.valid
         /\ last.req.email = u.email)
        => IF last.req.password = g.password
           THEN /\ last.status = 200
                /\ "jwt_token" \in DOMAIN last.body
                /\ last.body.jwt_token.id = u._id
           ELSE /\ last.status = 400
                /\ last.body = InvalidCredentials
                /\ "jwt_token" \notin DOMAIN last.body

\* C4 witness: a login with the signup password has just been answered 200
\* with a token for that User.
C4_Witness ==
    /\ last.handler \in LoginHandlers
    /\ last.status = 200
    /\ \E g \in signedUp : \E u \in users :
          /\ u._id = g.id
          /\ u.email = last.req.email
          /\ g.password = last.req.password
          /\ last.body.jwt_token.id = g.id

Unregistered(email) == findOne(users, email) = {}
Mismatch(email, password) ==
    \E u \in findOne(users, email) : ~bcryptCompare(password, u.password)

\* C5: in every store state, a login for an email no User holds and a login
\* for a registered email with a password that does not verify get the same
\* status and the same body, 400 "Invalid username or password", from either
\* controller; the response a failed login was actually sent is that one.
C5_LoginFailuresIndistinguishable ==
    /\ \A e1, e2 \in Emails, p1, p2 \in Passwords :
          (Unregistered(e1) /\ Mismatch(e2, p2))
          => /\ loginResult(users, e1, p1) = loginResult(users, e2, p2)
             /\ login2Result(users, e1, p1) = login2Result(users, e2, p2)
             /\ loginResult(users, e1, p1) = login2Result(users, e2, p2)
    /\ (/\ last.handler \in LoginHandlers
        /\ last.req.valid
        /\ Unregistered(last.req.email) \/ Mismatch(last.req.email, last.req.password))
       => last.status = 400 /\ last.body = InvalidCredentials

\* C5 witness: a login with a wrong password for a registered email has just
\* failed while another email is still unregistered.
C5_Witness ==
    /\ last.handler \in LoginHandlers
    /\ last.req.valid
    /\ last.status = 400
    /\ Mismatch(last.req.email, last.req.password)
    /\ \E e \in Emails : Unregistered(e)

-----------------------------------------------------------------------------
(* Properties of the employee routes *)

CreateHandlers == {"createEmployee", "createEmployee2"}
InsertHandlers == {"createEmployeeSave", "createEmployee2"}
UpdateHandlers == {"updateEmployee", "updateEmployee2"}

\* a required field the request carries: the key is in the body, and a text
\* field is not the empty string; any number counts
Present(body, field) ==
    field \in DOMAIN body /\ (field = "salary" \/ body[field] # "")

\* a stored field that holds a value
Populated(doc, field) ==
    field \in DOMAIN doc /\ (field = "salary" \/ doc[field] # "")

\* C6: a Create that carries all seven required fields, whatever their
\* values (a salary of 0 included), with an email no Employee holds, is not
\* refused; its insert returns 201 with an identifier, and the document
\* stored under that identifier, which GetById then returns, has the seven
\* fields of the input and the server's time as created_at and updated_at.
C6_CreateThenGetById ==
    [][ /\ (/\ last'.handler = "createEmployee"
            /\ \A f \in Required : Present(last'.req.body, f)
            /\ findOne(employees, last'.req.body.email) = {})
           => last'.status # 400
        /\ (/\ last'.handler \in InsertHandlers
            /\ \A f \in Required : Present(last'.req.body, f)
            /\ findOne(employees, last'.req.body.email) = {})
           => /\ last'.status = 201
              /\ \E d \in findById(employees', last'.body.employee_id) :
                    /\ \A f \in Required : d[f] = last'.req.body[f]
                    /\ d.created_at = now /\ d.updated_at = now
      ]_vars

\* C7: a Create that lacks one of the seven required fields is answered 400
\* and inserts nothing, and every stored Employee has all seven required
\* fields populated.
C7_NoPartialEmployee ==
    [][ /\ (/\ last'.handler \in CreateHandlers
            /\ \E f \in Required : f \notin DOMAIN last'.req.body)
           => last'.status = 400 /\ employees' = employees
        /\ \A d \in employees' : \A f \in Required : Populated(d, f)
      ]_vars

\* C8: no two Employees ever share an email; a Create that carries its
\* required fields and whose email an Employee already holds is answered 400
\* and changes nothing; an Update that would give an Employee the email of
\* another one changes nothing.
C8_EmployeeEmailUnique ==
    [][ /\ \A d, e \in employees' : d.email = e.email => d = e
        /\ (/\ last'.handler \in CreateHandlers \cup InsertHandlers
            /\ \A f \in Required : Present(last'.req.body, f)
            /\ findOne(employees, last'.req.body.email) # {})
           => last'.status = 400 /\ employees' = employees
        /\ (/\ last'.handler \in UpdateHandlers
            /\ "email" \in DOMAIN last'.req.body
            /\ \E d \in employees : d._id # last'.req.eid /\ d.email = last'.req.body.email)
           => employees' = employees
      ]_vars

\* C9 is about Employees whose profile image path is set.  The schema the
\* store casts every document and update through declares no such path, so
\* no stored Employee ever has one: this holds in every reachable state.
NoStoredImagePath == \A d \in employees : "profileImageUrl" \notin DOMAIN d

\* C10: after a Create or an Update that carried an uploaded file has
\* succeeded, the stored document's profile image path is the path of that
\* upload; after a Create without a file the path is unset.
C10_UploadSetsImagePath ==
    /\ (/\ last.handler = "createEmployeeSave" /\ last.status = 201)
       => \A d \in findById(employees, last.body.employee_id) :
             IF last.req.file # NoFile
             THEN /\ "profileImageUrl" \in DOMAIN d
                  /\ d.profileImageUrl = UploadPath(last.req.file)
             ELSE "profileImageUrl" \notin DOMAIN d \/ d.profileImageUrl = Null
    /\ (/\ last.handler = "updateEmployee" /\ last.status = 200 /\ last.req.file # NoFile)
       => \A d \in findById(employees, last.req.eid) :
             /\ "profileImageUrl" \in DOMAIN d
             /\ d.profileImageUrl = UploadPath(last.req.file)

GetByIdHandlers == {"getEmployeeById", "getEmployeeById2"}
DeleteHandlers == {"deleteEmployee", "deleteEmployee2"}
ByIdHandlers == GetByIdHandlers \cup UpdateHandlers \cup DeleteHandlers

\* the statuses a delete that removed a document is answered with: 200 by the
\* controller with upload, 204 by the one without
DeleteSuccess == {200, 204}

\* an identifier the store has issued that no Employee has: the identifier
\* of a deleted Employee
Gone(id) == id <= nextId /\ findById(employees, id) = {}

Stored(coll, id) == CHOOSE d \in findById(coll, id) : TRUE

\* an Update the store does not refuse: it names no email, or one no other
\* Employee holds
Acceptable(coll, id, body) ==
    "email" \in DOMAIN body =>
        \A d \in coll : d.email = body.email => d._id = id

\* C12: an Update of an existing Employee that the store does not refuse is
\* answered 200 and merges the payload onto the document: a field the
\* payload does not name (the identifier and created_at among them) keeps
\* its value, a declared field the payload names takes the payload's value,
\* updated_at is the server's time even when the payload names updated_at,
\* and no other document changes.
C12_UpdateMerges ==
    [][ (/\ last'.handler \in UpdateHandlers
         /\ findById(employees, last'.req.eid) # {}
         /\ Acceptable(employees, last'.req.eid, last'.req.body))
        => /\ last'.status = 200
           /\ findById(employees', last'.req.eid) # {}
           /\ LET before == Stored(employees, last'.req.eid)
                  after == Stored(employees', last'.req.eid)
                  body == last'.req.body
              IN  /\ DOMAIN after = DOMAIN before
                  /\ \A f \in DOMAIN before \ (DOMAIN body \cup {"updated_at"}) :
                        after[f] = before[f]
                  /\ \A f \in (DOMAIN body \cap SchemaPaths) \ {"updated_at"} :
                        after[f] = body[f]
                  /\ after.updated_at = now
                  /\ employees' \ {after} = employees \ {before}
      ]_vars

\* C12 witness: an Update whose payload names an updated_at other than the
\* server's time has succeeded, and the stored updated_at is the server's
\* time.
C12_Witness ==
    /\ last.handler \in UpdateHandlers
    /\ last.status = 200
    /\ "updated_at" \in DOMAIN last.req.body
    /\ last.req.body.updated_at # now
    /\ Stored(employees, last.req.eid).updated_at = now
    /\ Cardinality(employees) > 1

\* a text in lower case
LowerCase(text) == [k \in 1..Len(text) |-> Lower(text[k])]

\* part occurs in text as a run of consecutive characters
Substring(part, text) ==
    \E i \in 0..(Len(text) - Len(part)) :
        \A k \in 1..Len(part) : part[k] = text[i + k]

\* the Employees a search for the given department and position is to return
Matching(department, position) ==
    {e \in employees :
        /\ department = NoParam
           \/ Substring(LowerCase(department), LowerCase(Chars(e.department)))
        /\ position = NoParam
           \/ Substring(LowerCase(position), LowerCase(Chars(e.position)))}

\* C13: a Search is answered 200 with exactly the Employees whose department
\* contains the given department and whose position contains the given
\* position, as substrings without regard to case, an absent filter
\* admitting every Employee; when nothing matches the answer is the empty
\* list.
C13_SearchIsSubstringMatch ==
    last.handler = "searchEmployees"
    => /\ last.status = 200
       /\ last.body = Matching(last.req.department, last.req.position)

\* For the searches whose filters hold no ".", the code returns what C13
\* states.
C13_SearchOfPlainText ==
    (/\ last.handler = "searchEmployees"
     /\ \A k \in 1..Len(last.req.department) : last.req.department[k] # "."
     /\ \A k \in 1..Len(last.req.position) : last.req.position[k] # ".")
    => /\ last.status = 200
       /\ last.body = Matching(last.req.department, last.req.position)

-----------------------------------------------------------------------------
(* Properties of all handlers *)

\* the handlers whose step is an insert into the users collection
UserInsertHandlers == SignupSaveHandlers \cup {"test"}

\* the email a handler's insert carries
InsertedEmail(response) ==
    IF response.handler = "test" THEN TestEmail ELSE response.req.email

\* C14: a store operation that fails is answered with one response of
\* status 500 that carries the failure's message, in every handler; no
\* request is left without a response.  The failure here is the insert the
\* store rejects: signup's save and the save of GET /test.
C14_StoreFailureAnswered500 ==
    [][ /\ (/\ last'.handler \in UserInsertHandlers
            /\ DuplicateKey(users, InsertedEmail(last')))
           => /\ last'.status = 500
              /\ last'.body.message = DuplicateKeyMessage
        /\ last'.status # -1
      ]_vars

\* the handlers of login, List, Search and GetById
ReadHandlers ==
    LoginHandlers \cup GetByIdHandlers
    \cup {"getAllEmployees", "getAllEmployees2", "searchEmployees"}

\* C15: a request answered 400 or 404 leaves the User and the Employee
\* documents exactly as they were, and login, List, Search and GetById
\* never change them, whatever they answer.
C15_RefusalsAndReadsChangeNothing ==
    [][ /\ last'.status \in {400, 404} => users' = users /\ employees' = employees
        /\ last'.handler \in ReadHandlers => users' = users /\ employees' = employees
      ]_vars

\* C15 witness: with a User and an Employee stored, an Update of an
\* identifier no Employee has was just answered 404.
C15_Witness ==
    /\ last.handler \in UpdateHandlers
    /\ last.status = 404
    /\ users # {}
    /\ employees # {}
    /\ findById(employees, last.req.eid) = {}

====
